---- MODULE Spec2Model ----
(***************************************************************************)
(* State-machine model of open_cpp_utils::directed_tree                    *)
(* (src/directed_tree.h): the node arena, the free list, the structural    *)
(* editor (insert / erase / swap / next_id), the traversal cursors and the *)
(* visitor driver (traverse); and of open_cpp_utils::hash_table            *)
(* (src/hash_table.h): the slot table with its probe sequence lengths,     *)
(* insert / erase / contains and the capacity increase.                    *)
(***************************************************************************)
EXTENDS Integers, Sequences, FiniteSets, TLC

(* ------------------------------------------------------------------ *)
(* Bounds of the exploration                                           *)
(* ------------------------------------------------------------------ *)
MaxSize == 5      \* insert allocates a new slot only while size_ < MaxSize
MaxOps  == 7      \* number of insert / erase calls explored
MaxDeepOps == 8   \* number of insert / erase calls of the longer exploration
MaxSwapOps == 5   \* number of calls explored when swap is among them
MaxSwaps == 2     \* number of those calls that may be swap
MaxGrowOps == 11  \* number of insert / erase calls explored across a growth
MaxGrowSize == 11 \* slots in use across a growth (FirstCapacity + 1)
MaxClearOps == 5  \* number of insert / erase / clear calls explored with clear
MaxCursorOps == 4 \* number of insert / erase calls made before a traversal
MaxPairOps == 3   \* number of insert / erase calls made before two cursors run
MaxCalls == 6     \* number of calls made to one cursor
MaxElems == 7     \* number of different elements handed to the hash table
MaxTableOps == 5  \* number of hash table calls explored
MaxFillOps == 7   \* number of calls explored when the hash table is filled

(* ------------------------------------------------------------------ *)
(* Program constants                                                   *)
(* ------------------------------------------------------------------ *)
root         == 0           \* directed_tree::root
valid        == 1           \* Node_::valid (0x0001)
FirstCapacity == 10         \* grow_: capacity_ = 10 on the first growth
DefaultValue == 0           \* T() as built by std::construct_at(data_ + i)
Destroyed    == -1          \* a slot after std::destroy_at
Values       == {1}         \* payloads handed to insert

(* Node_::Node_() *)
Node_ ==
  [parent |-> 0, child |-> 0, prev_sibling |-> 0, next_sibling |-> 0,
   flags |-> 0, depth |-> 0]

VARIABLES
  graph_,      \* hierarchy graph_ : index -> Node_
  data_,       \* storage data_    : index -> value
  size_,       \* size_t size_
  capacity_,   \* size_t capacity_
  freed_,      \* node_queue freed_ (front = Head)
  hang,        \* TRUE once a call entered a loop that never ends
  last,        \* the last call: its name, arguments and returned id
  run,         \* the inserts made in a row since the last other call
  ops,         \* number of modifying calls made so far
  swaps,       \* number of swap calls made so far
  cursor,      \* the traversal cursors: their queue, position and history
  ht,          \* the hash_table: table_, capacity_, size_
  use          \* the hash table's client: hash values, calls made, elements kept

vars == <<graph_, data_, size_, capacity_, freed_, hang, last, run, ops, swaps,
          cursor, ht, use>>
tree == <<graph_, data_, size_, capacity_, freed_>>

(* ------------------------------------------------------------------ *)
(* Helpers                                                             *)
(* ------------------------------------------------------------------ *)

(* grow_(): new capacity, records and values copied below size_,        *)
(* default records above, slot 0 valid on the first growth.             *)
grown_capacity(cap) == IF cap = 0 THEN FirstCapacity ELSE cap * 2

(* grow_() that default-constructs every value of the new array *)
grow_fresh_values(g, d, sz, cap) ==
  [capacity |-> grown_capacity(cap),
   graph |-> [i \in 0..(grown_capacity(cap) - 1) |->
                IF sz > 0
                  THEN (IF i < sz THEN g[i] ELSE Node_)
                  ELSE (IF i = 0 THEN [Node_ EXCEPT !.flags = valid] ELSE Node_)],
   data  |-> [i \in 0..(grown_capacity(cap) - 1) |-> DefaultValue]]

grow_(g, d, sz, cap) ==
  [capacity |-> grown_capacity(cap),
   graph |-> [i \in 0..(grown_capacity(cap) - 1) |->
                IF sz > 0
                  THEN (IF i < sz THEN g[i] ELSE Node_)
                  ELSE (IF i = 0 THEN [Node_ EXCEPT !.flags = valid] ELSE Node_)],
   data  |-> [i \in 0..(grown_capacity(cap) - 1) |->
                IF sz > 0 /\ i < sz THEN d[i] ELSE DefaultValue]]

(* push_back_(data): grow when full, construct the value at size_,      *)
(* return size_ and increment it.                                       *)
(* push_back_, line 133: if(size_ >= capacity_) grow_() *)
make_room(g, d, sz, cap) ==
  IF sz >= cap THEN grow_(g, d, sz, cap)
               ELSE [capacity |-> cap, graph |-> g, data |-> d]

construct_back(t, sz, v) ==
  [graph |-> t.graph,
   data |-> [t.data EXCEPT ![sz] = v],
   capacity |-> t.capacity,
   size |-> sz + 1,
   id |-> sz]

push_back_(g, d, sz, cap, v) == construct_back(make_room(g, d, sz, cap), sz, v)

(* ------------------------------------------------------------------ *)
(* Tree navigation                                                     *)
(* ------------------------------------------------------------------ *)
is_valid(g, id)     == g[id].flags = valid
parent(g, id)       == g[id].parent
first_child(g, id)  == g[id].child
prev_sibling(g, id) == g[id].prev_sibling
next_sibling(g, id) == g[id].next_sibling
depth(g, id)        == g[id].depth

(* the while loop of last_child never ends: the next_sibling chain from c *)
(* comes back on itself                                                   *)
RECURSIVE ChainLoops(_, _, _)
ChainLoops(g, c, seen) ==
  IF c = 0 THEN FALSE
  ELSE IF c \in seen THEN TRUE
  ELSE ChainLoops(g, next_sibling(g, c), seen \cup {c})

last_child_hangs(g, id) == ChainLoops(g, first_child(g, id), {})

RECURSIVE last_child_walk(_, _)
last_child_walk(g, c) ==
  IF c = 0 THEN c
  ELSE IF g[c].next_sibling = 0 THEN c
  ELSE last_child_walk(g, g[c].next_sibling)

(* last_child(id): walk next_sibling from first_child to the tail *)
last_child(g, id) == last_child_walk(g, first_child(g, id))

(* next_id() that overlooks the free list *)
next_id_size(f, sz) == sz

(* next_id() *)
next_id(f, sz) == IF f = <<>> THEN sz ELSE Head(f)

(* ------------------------------------------------------------------ *)
(* Tree modification                                                   *)
(* ------------------------------------------------------------------ *)

(* insert, lines 264-271: take the id from the free list, or make a new *)
(* slot and put its id on the free list; construct the value at that id  *)
mark_freed(t) ==
  [graph |-> t.graph, data |-> t.data, size |-> t.size,
   capacity |-> t.capacity, freed |-> <<t.id>>]

obtain_id(g, d, sz, cap, f, v) ==
  IF f = <<>>
    THEN mark_freed(push_back_(g, d, sz, cap, v))
    ELSE [graph |-> g, data |-> [d EXCEPT ![Head(f)] = v], size |-> sz,
          capacity |-> cap, freed |-> f]

(* insert, line 281: the parent's first child becomes the new node *)
claim_first_child(g, id, p_id, back, s_id) ==
  IF g[p_id].child = root \/ (s_id = g[p_id].child /\ ~back)
    THEN [g EXCEPT ![p_id].child = id] ELSE g

(* insert, lines 283-284 *)
reset_links(g, id, p_id) ==
  [g EXCEPT ![id].next_sibling = 0, ![id].prev_sibling = 0, ![id].parent = p_id]

(* insert, line 285: parent.depth is read after the writes above *)
set_depth(g, id, p_id) == [g EXCEPT ![id].depth = g[p_id].depth + 1]

(* insert, lines 286-287 *)
set_valid(g, id) == [g EXCEPT ![id].flags = valid, ![id].child = 0]

(* insert, lines 289-304: the writes are applied left to right *)
splice(g, id, back, s_id) ==
  IF s_id = 0 THEN g
  ELSE IF back
    THEN [g EXCEPT ![id].next_sibling = g[s_id].next_sibling,
                   ![id].prev_sibling = s_id,
                   ![s_id].next_sibling = id]
    ELSE [g EXCEPT ![id].next_sibling = s_id,
                   ![id].prev_sibling = g[s_id].prev_sibling,
                   ![s_id].prev_sibling = id]

(* insert, lines 277-306 *)
link_node(t, id, p_id, back, s_id) ==
  [hang |-> FALSE,
   graph |-> splice(set_valid(set_depth(reset_links(
               claim_first_child(t.graph, id, p_id, back, s_id), id, p_id), id, p_id), id),
               id, back, s_id),
   data |-> t.data, size |-> t.size, capacity |-> t.capacity,
   freed |-> Tail(t.freed), id |-> id]

(* insert, line 274: node id = freed_.front(); freed_.pop_front() *)
place(t, p_id, back, s_id) == link_node(t, Head(t.freed), p_id, back, s_id)

(* insert(data, p_id, sib): the statements in the order of the code, each *)
(* reading the records as left by the one before (node, parent and        *)
(* sibling are references into graph_ and may name the same slot)         *)
insert(g, d, sz, cap, f, v, p_id, sib) ==
  IF sib = 0 /\ last_child_hangs(g, p_id)
    THEN [hang |-> TRUE, graph |-> g, data |-> d, size |-> sz, capacity |-> cap,
          freed |-> f, id |-> 0]
    ELSE place(obtain_id(g, d, sz, cap, f, v), p_id, sib = 0,
               IF sib = 0 THEN last_child(g, p_id) ELSE sib)

(* swap(a, b), lines 371-372: repoint a parent's child *)
repoint(g, x, from, to) ==
  IF g[g[x].parent].child = from THEN [g EXCEPT ![g[x].parent].child = to] ELSE g

(* swap(a, b): exchange the two records, then repoint the parents' child *)
swap(g, a, b) ==
  repoint(repoint([g EXCEPT ![a] = g[b], ![b] = g[a]], b, a, b), a, b, a)

(* the ids the erase worklist pushes when it pops n *)
Links(g, n) == {g[n].child, g[n].next_sibling} \ {0}

RECURSIVE LinkClosure(_, _)
LinkClosure(g, S) ==
  IF (S \cup UNION {Links(g, n) : n \in S}) = S THEN S
  ELSE LinkClosure(g, S \cup UNION {Links(g, n) : n \in S})

(* the worklist seeded with n never empties iff a link cycle is reachable *)
Diverges(g, n) ==
  \E x \in LinkClosure(g, {n}) : x \in LinkClosure(g, Links(g, x))

(* erase, lines 422-423: next_sibling, then child, pushed to the front *)
push_links(g, next, stack) ==
  (IF g[next].child # 0 THEN <<g[next].child>> ELSE <<>>)
    \o (IF g[next].next_sibling # 0 THEN <<g[next].next_sibling>> ELSE <<>>)
    \o stack

(* erase(): while(stack.empty() == false) { ... } *)
RECURSIVE erase_loop(_, _, _, _)
erase_loop(g, d, f, stack) ==
  IF stack = <<>> THEN [hang |-> FALSE, graph |-> g, data |-> d, freed |-> f]
  ELSE erase_loop([g EXCEPT ![Head(stack)].flags = 0],
                  [d EXCEPT ![Head(stack)] = Destroyed],
                  Append(f, Head(stack)),
                  push_links(g, Head(stack), Tail(stack)))

(* erase, line 406 *)
repoint_parent(g, id) == [g EXCEPT ![g[id].parent].child = g[id].next_sibling]

(* erase, line 409 *)
patch_next(g, id) ==
  IF g[id].next_sibling # 0
    THEN [g EXCEPT ![g[id].next_sibling].prev_sibling = g[id].prev_sibling] ELSE g

(* erase, line 410 *)
patch_prev(g, id) ==
  IF g[id].prev_sibling # 0
    THEN [g EXCEPT ![g[id].prev_sibling].next_sibling = g[id].next_sibling] ELSE g

(* erase, lines 400-410: the node is marked and taken out of its list *)
detach(g, id) ==
  patch_prev(patch_next(repoint_parent([g EXCEPT ![id].flags = 0], id), id), id)

(* erase, lines 413-424 *)
sweep(g, d, f, id, g0, d0, f0) ==
  IF Diverges(g, g[id].child)
    THEN [hang |-> TRUE, graph |-> g0, data |-> d0, freed |-> f0]
    ELSE erase_loop(g, d, f, <<g[id].child>>)

(* erase, lines 400-424: what erase does to a node other than the root *)
remove(g, d, f, id) ==
  sweep(detach(g, id), [d EXCEPT ![id] = Destroyed], Append(f, id), id, g, d, f)

(* erase(id) that overlooks the test for the root *)
erase_any(g, d, f, id) == remove(g, d, f, id)

(* erase(id), line 397: if(id == root) return *)
erase(g, d, f, id) ==
  IF id = root THEN [hang |-> FALSE, graph |-> g, data |-> d, freed |-> f]
               ELSE remove(g, d, f, id)

(* clear(), lines 377-384: every valid id below size_ is marked, its     *)
(* value destroyed and the id pushed on the free list                   *)
RECURSIVE clear_loop(_, _, _, _, _)
clear_loop(g, d, f, i, sz) ==
  IF i >= sz THEN [graph |-> g, data |-> d, freed |-> f]
  ELSE IF ~is_valid(g, i) THEN clear_loop(g, d, f, i + 1, sz)
  ELSE clear_loop([g EXCEPT ![i].flags = 0], [d EXCEPT ![i] = Destroyed],
                  Append(f, i), i + 1, sz)

(* clear(): after the loop both arrays are deallocated (graph_ and data_ *)
(* are left with no record and no value), capacity_ = 0; size_ = 0       *)
clear(g, d, f, sz) ==
  [graph |-> <<>>, data |-> <<>>, freed |-> clear_loop(g, d, f, 0, sz).freed,
   size |-> 0, capacity |-> 0]

(* ------------------------------------------------------------------ *)
(* Navigation: the traversal cursors                                   *)
(* ------------------------------------------------------------------ *)

(* left_most(id): while(id = first_child(current)) current = id;        *)
(* the loop never ends when the first_child chain comes back on itself  *)
RECURSIVE ChildLoops(_, _, _)
ChildLoops(g, c, seen) ==
  IF first_child(g, c) = 0 THEN FALSE
  ELSE IF first_child(g, c) \in seen THEN TRUE
  ELSE ChildLoops(g, first_child(g, c), seen \cup {first_child(g, c)})

left_most_hangs(g, id) == ChildLoops(g, id, {id})

RECURSIVE left_most(_, _)
left_most(g, id) ==
  IF first_child(g, id) = 0 THEN id ELSE left_most(g, first_child(g, id))

(* std::deque<node>(n): n value-initialised elements *)
deque(n) == [i \in 1..n |-> 0]

(* if(x) visit_queue_.push_front(x) / push_back(x) *)
push_front(q, x) == IF x # 0 THEN <<x>> \o q ELSE q
push_back(q, x)  == IF x # 0 THEN Append(q, x) ELSE q

(* the queue without its back element *)
pop_back(q) == SubSeq(q, 1, Len(q) - 1)

(* what one call of a cursor leaves: its queue, its scan position, the  *)
(* id it returns; ub: the call read an element of an empty queue or a   *)
(* record past the end of graph_; hung: the call never returns          *)
Out(q, ret) ==
  [visit_queue_ |-> q, current_ |-> 0, ret |-> ret, ub |-> FALSE, hung |-> FALSE]
Undefined(o) == [o EXCEPT !.ub = TRUE]
Hung == [Out(<<>>, 0) EXCEPT !.hung = TRUE]

(* pre_order::operator(), lines 540-542 *)
pre_order_pop(q) == IF q = <<>> THEN Out(q, 0) ELSE Out(Tail(q), Head(q))

(* pre_order::operator()(id) *)
pre_order(g, q, id) ==
  pre_order_pop(push_front(push_front(q, g[id].next_sibling), g[id].child))

(* breadth_first::operator(), lines 510-516, id being the element taken *)
(* from the back of the queue and q the rest                            *)
breadth_first_visit(g, q, id) ==
  Out(push_front(push_back(q, g[id].next_sibling), g[id].child),
      IF push_front(push_back(q, g[id].next_sibling), g[id].child) = <<>>
        THEN 0 ELSE id)

(* breadth_first::operator()(id): back() and pop_back() of an empty     *)
(* queue are undefined; x is the value such a back() hands over         *)
breadth_first(g, q, x) ==
  IF q = <<>> THEN Undefined(breadth_first_visit(g, <<>>, x))
  ELSE breadth_first_visit(g, pop_back(q), q[Len(q)])

(* in_order::operator(), line 561 *)
in_order_seed(g, q, id) == IF id = 0 THEN Append(q, left_most(g, id)) ELSE q

(* in_order::operator(), lines 564-572; current.Sibling, which Node_    *)
(* does not declare, is read as current.next_sibling                    *)
in_order_visit(g, q, id) ==
  IF g[id].next_sibling = 0 THEN Out(q, id)
  ELSE IF left_most_hangs(g, g[id].next_sibling) THEN Hung
  ELSE Out(Append(IF next_sibling(g, g[id].next_sibling) # 0
                    THEN Append(q, g[id].parent) ELSE q,
                  left_most(g, g[id].next_sibling)),
           id)

(* in_order::operator()(id): front() and pop_front() of an empty queue  *)
(* are undefined; x is the value such a front() hands over              *)
in_order(g, q, id, x) ==
  IF id = 0 /\ left_most_hangs(g, id) THEN Hung
  ELSE IF in_order_seed(g, q, id) = <<>> THEN Undefined(in_order_visit(g, <<>>, x))
  ELSE in_order_visit(g, Tail(in_order_seed(g, q, id)), Head(in_order_seed(g, q, id)))

(* post_order::operator(), line 591 *)
post_order_seed(g, q, id) == IF q = <<>> THEN <<left_most(g, id)>> ELSE q

(* post_order::operator(), lines 594-599; current.Sibling is read as    *)
(* current.next_sibling                                                 *)
post_order_visit(g, q, id) ==
  IF id = 0 THEN Out(q, id)
  ELSE IF g[id].next_sibling = 0 THEN Out(Append(q, parent(g, id)), id)
  ELSE IF left_most_hangs(g, g[id].next_sibling) THEN Hung
  ELSE Out(Append(q, left_most(g, g[id].next_sibling)), id)

(* post_order::operator()(id) *)
post_order(g, q, id) ==
  IF q = <<>> /\ left_most_hangs(g, id) THEN Hung
  ELSE post_order_visit(g, Tail(post_order_seed(g, q, id)),
                        Head(post_order_seed(g, q, id)))

(* unordered::operator(), lines 483-486: the index the while loop stops *)
(* at, or cap when it runs past the records of graph_                   *)
RECURSIVE scan(_, _, _)
scan(g, cap, cur) ==
  IF cur >= cap THEN cap
  ELSE IF ~is_valid(g, cur) \/ cur = root THEN scan(g, cap, cur + 1)
  ELSE cur

(* unordered::operator(), lines 488-491; graph_.graph_.size(), which a  *)
(* Node_* does not have, is read as the number of records, capacity_    *)
unordered_ret(cap, id) ==
  [Out(<<>>, IF id = cap THEN 0 ELSE id) EXCEPT !.current_ = id + 1]

(* unordered::operator()(id): valid(current_) past the last record is   *)
(* undefined; the outcome kept here is a record that reads as valid     *)
unordered(g, cap, cur) ==
  IF scan(g, cap, cur) >= cap THEN Undefined(unordered_ret(cap, cap))
  ELSE unordered_ret(cap, scan(g, cap, cur))

(* order_(id) of a cursor c *)
advance(g, cap, c, id, x) ==
  CASE c.order = "pre_order"     -> pre_order(g, c.visit_queue_, id)
    [] c.order = "breadth_first" -> breadth_first(g, c.visit_queue_, x)
    [] c.order = "in_order"      -> in_order(g, c.visit_queue_, id, x)
    [] c.order = "post_order"    -> post_order(g, c.visit_queue_, id)
    [] c.order = "unordered"     -> unordered(g, cap, c.current_)

(* ------------------------------------------------------------------ *)
(* hash_table: a table t is [table_, capacity_, size_]; h gives the    *)
(* value hash_(v) takes, after the mixing of _hash, for each element   *)
(* ------------------------------------------------------------------ *)
nullnode    == -1          \* hash_table::nullnode
MinCapacity == 7           \* _next_prime: std::max(x, 7ull)
Unhashed    == -1          \* an element no call has hashed yet
Hashes      == {0, 1, 6}   \* the values _hash takes before the modulus

(* a _Node after memset(table_, 0, ...) *)
NoNode == [value |-> 0, valid |-> FALSE, psl |-> 0]

(* hash_table() *)
NewTable == [table_ |-> <<>>, capacity_ |-> 0, size_ |-> 0]

(* is_prime(x), src/math.h *)
is_prime(x) ==
  IF x <= 1 THEN FALSE
  ELSE IF x = 2 \/ x = 3 THEN TRUE
  ELSE IF x % 2 = 0 \/ x % 3 = 0 THEN FALSE
  ELSE \A i \in 5..x : (i * i <= x /\ (i - 5) % 6 = 0)
                          => (x % i # 0 /\ x % (i + 2) # 0)

(* _next_prime, the loop: 6n - 1, then 6n + 1, then the next n; for n = 0 *)
(* the unsigned 6n - 1 is 2^64 - 1, a multiple of 3                      *)
RECURSIVE next_prime_from(_)
next_prime_from(n) ==
  IF n # 0 /\ is_prime(6 * n - 1)
    THEN (IF 6 * n - 1 > MinCapacity THEN 6 * n - 1 ELSE MinCapacity)
  ELSE IF is_prime(6 * n + 1)
    THEN (IF 6 * n + 1 > MinCapacity THEN 6 * n + 1 ELSE MinCapacity)
  ELSE next_prime_from(n + 1)

(* _next_prime(x): n = (x + 1) / 6; n *= 2 *)
next_prime(x) == next_prime_from(2 * ((x + 1) \div 6))

(* _hash(v): the mixed hash value modulo capacity_ *)
hash_slot(t, h, v) == h[v] % t.capacity_

(* _next(n) *)
next_slot(t, n) == (n + 1) % t.capacity_

(* _find(x), lines 347-357 *)
RECURSIVE find_loop(_, _, _, _)
find_loop(t, x, idx, psl) ==
  IF ~t.table_[idx].valid THEN nullnode
  ELSE IF t.table_[idx].psl > psl THEN nullnode
  ELSE IF t.table_[idx].value = x THEN idx
  ELSE find_loop(t, x, next_slot(t, idx), psl + 1)

(* _find(x) *)
find(t, h, x) ==
  IF t.capacity_ = 0 THEN nullnode ELSE find_loop(t, x, hash_slot(t, h, x), 0)

(* contains(x) *)
contains(t, h, x) == find(t, h, x) # nullnode

(* insert, lines 262-280: the probe loop and the final store *)
RECURSIVE insert_loop(_, _, _, _, _)
insert_loop(t, x, idx, psl, val) ==
  IF ~t.table_[idx].valid
    THEN [t EXCEPT !.table_[idx] = [value |-> val, valid |-> TRUE, psl |-> psl],
                   !.size_ = @ + 1]
  ELSE IF t.table_[idx].value = x THEN t
  ELSE IF psl > t.table_[idx].psl
    THEN insert_loop([t EXCEPT !.table_[idx].psl = psl, !.table_[idx].value = val],
                     x, next_slot(t, idx), t.table_[idx].psl + 1, t.table_[idx].value)
  ELSE insert_loop(t, x, next_slot(t, idx), psl + 1, val)

(* insert, lines 258-260: idx = _hash(x), psl = 0, val = x *)
probe(t, h, x) == insert_loop(t, x, hash_slot(t, h, x), 0, x)

(* insert, line 256: occupancy() > load_factor_ || capacity_ == 0, with  *)
(* load_factor_ = 0.8 and occupancy() = size_ / capacity_ (not a number, *)
(* hence not greater, when capacity_ is 0)                               *)
needs_room(t) == t.capacity_ = 0 \/ 5 * t.size_ > 4 * t.capacity_

(* _increase_capacity, lines 313-316: the new, zeroed table *)
grown(t) ==
  [table_ |-> [i \in 0..(next_prime(t.capacity_) - 1) |-> NoNode],
   capacity_ |-> next_prime(t.capacity_),
   size_ |-> 0]

(* insert(x) and _increase_capacity(): the old table is given back to    *)
(* the allocator before it is read (line 312), so the loop of lines      *)
(* 318-321 reads released memory: old is what it finds there             *)
RECURSIVE table_insert(_, _, _, _), rehash(_, _, _, _, _)
rehash(t, h, old, i, n) ==
  IF i >= n THEN t
  ELSE rehash(IF old[i].valid THEN table_insert(t, h, old[i].value, t.table_) ELSE t,
              h, old, i + 1, n)

increase_capacity(t, h, old) == rehash(grown(t), h, old, 0, t.capacity_)

table_insert(t, h, x, old) ==
  probe(IF needs_room(t) THEN increase_capacity(t, h, old) ELSE t, h, x)

(* erase, lines 292-298: the elements behind the emptied slot move back *)
RECURSIVE shift(_, _, _)
shift(t, prev, idx) ==
  IF t.table_[idx].valid /\ t.table_[idx].psl > 0
    THEN shift([t EXCEPT !.table_[prev] = [t.table_[idx] EXCEPT !.psl = @ - 1],
                         !.table_[idx] = t.table_[prev]],
               idx, next_slot(t, idx))
    ELSE t

(* erase, lines 289-290: value.reset(), --size_ *)
erase_at(t, idx) ==
  shift([t EXCEPT !.table_[idx].valid = FALSE, !.size_ = @ - 1], idx, next_slot(t, idx))

(* erase(x) *)
table_erase(t, h, x) ==
  IF find(t, h, x) = nullnode THEN t ELSE erase_at(t, find(t, h, x))

(* what a read of the released table can find: the nodes as they were,    *)
(* or one of them holding anything else                                   *)
Released(old, h) ==
  {old} \cup {[old EXCEPT ![i] = NoNode] : i \in DOMAIN old}
        \cup {[old EXCEPT ![i] = [value |-> v, valid |-> TRUE, psl |-> 0]] :
               i \in DOMAIN old, v \in {e \in DOMAIN h : h[e] # Unhashed}}

(* ------------------------------------------------------------------ *)
(* The state machine                                                   *)
(* ------------------------------------------------------------------ *)
Ids       == 0..(size_ - 1)
ValidIds  == {n \in Ids : is_valid(graph_, n)}
NonRoot   == ValidIds \ {root}
ChildrenOf(g, p) == {c \in DOMAIN g : c # root /\ is_valid(g, c) /\ parent(g, c) = p}

(* a call: op(a, b, c) returned ret; told is <<what next_id() returned>>  *)
(* when it was the call made just before this one, and <<>> otherwise     *)
None == <<>>
Call(op, a, b, c, ret, told) ==
  [op |-> op, a |-> a, b |-> b, c |-> c, ret |-> ret, told |-> told]
Told == IF last.op = "next_id" THEN <<last.ret>> ELSE None
NewRun(f, sz) == [freed |-> f, size |-> sz, rets |-> <<>>]

(* a cursor: its order, its members visit_queue_ and current_, the ids   *)
(* its calls returned, the visitor calls made for them (the value and id *)
(* passed, the answer given), and whether it                             *)
(* was constructed, is being driven, returned 0 ("done"), was stopped    *)
(* by the visitor, crashed or hung; ub: a call of it was undefined       *)
Cursors == {1, 2}
NoCursor ==
  [order |-> "none", visit_queue_ |-> <<>>, current_ |-> 0, rets |-> <<>>,
   visits |-> <<>>, status |-> "idle", ub |-> FALSE]

(* the constructors: breadth_first(graph) : visit_queue_(0),             *)
(* unordered(graph) : current_(root), the others leave the queue empty   *)
NewCursor(order) ==
  [NoCursor EXCEPT !.order = order,
                   !.visit_queue_ = IF order = "breadth_first" THEN deque(0) ELSE <<>>,
                   !.current_ = root,
                   !.status = "running"]

(* no traversal is under way *)
Quiet == \A i \in Cursors : cursor[i].status = "idle"

(* traverser::operator(): node id = 0; while(id = order_(id)) ...        *)
Driven(c) == IF c.rets = <<>> THEN 0 ELSE c.rets[Len(c.rets)]

(* traverser::operator() that goes on after the visitor returned true *)
visit_no_break(c, d, r, stop) ==
  [c EXCEPT !.visit_queue_ = r.visit_queue_,
            !.current_ = r.current_,
            !.rets = Append(@, r.ret),
            !.ub = @ \/ r.ub,
            !.visits = IF r.ret # 0
                         THEN Append(@, [value |-> d[r.ret], id |-> r.ret, stop |-> stop])
                         ELSE @,
            !.status = IF r.ret = 0 THEN "done" ELSE "running"]

(* traverser::operator(), lines 623-626: the id the cursor returned ends *)
(* the loop when it is 0, else the visitor is called with the value at  *)
(* id and id, and ends the loop when it returns true                    *)
visit(c, d, r, stop) ==
  [c EXCEPT !.visit_queue_ = r.visit_queue_,
            !.current_ = r.current_,
            !.rets = Append(@, r.ret),
            !.ub = @ \/ r.ub,
            !.visits = IF r.ret # 0
                         THEN Append(@, [value |-> d[r.ret], id |-> r.ret, stop |-> stop])
                         ELSE @,
            !.status = IF r.ret = 0 THEN "done"
                       ELSE IF stop THEN "stopped" ELSE "running"]

(* one turn of the loop of traverser::operator(); an undefined call of   *)
(* the cursor either ends the program or returns as advance says (the    *)
(* outcomes of a second undefined call are not followed further)         *)
traverser(c, d, r, stop, crash) ==
  IF r.hung THEN [c EXCEPT !.status = "hung"]
  ELSE IF r.ub /\ (crash \/ c.ub) THEN [c EXCEPT !.status = "crashed", !.ub = TRUE]
  ELSE visit(c, d, r, stop)

(* the elements handed to the hash table *)
Elems == 1..MaxElems

(* the client of the hash table: the hash value of each element used so   *)
(* far, the elements inserted and not erased since, the last call, the    *)
(* number of calls, and whether the program was ended                     *)
TableCall(op, x, ret) == [op |-> op, x |-> x, ret |-> ret]
NewUse ==
  [hash_ |-> [e \in Elems |-> Unhashed], live |-> {}, last |-> TableCall("new", 0, 0),
   calls |-> 0, crashed |-> FALSE]

(* the hash values once x has been hashed with value k *)
Hashed(x, k) == [use.hash_ EXCEPT ![x] = k]

(* the values hash_(x) may take: the one it took before, if any *)
HashOf(x) == IF use.hash_[x] = Unhashed THEN Hashes ELSE {use.hash_[x]}

(* the elements a call may name: one used before, or the next new one *)
Usable == {x \in Elems : x = 1 \/ use.hash_[x - 1] # Unhashed}

(* directed_tree(): size_(0), capacity_(0), graph_(nullptr), data_(nullptr), *)
(* then push_back_(T())                                                      *)
Init ==
  \E pb \in {push_back_(<<>>, <<>>, 0, 0, DefaultValue)} :
  /\ graph_ = pb.graph
  /\ data_ = pb.data
  /\ size_ = pb.size
  /\ capacity_ = pb.capacity
  /\ freed_ = <<>>
  /\ hang = FALSE
  /\ last = Call("new", 0, 0, 0, 0, None)
  /\ run = NewRun(<<>>, pb.size)
  /\ ops = 0
  /\ swaps = 0
  /\ cursor = [i \in Cursors |-> NoCursor]
  /\ ht = NewTable
  /\ use = NewUse

(* insert(data, p_id, sib) *)
InsertCall(v, p, s) ==
  /\ ~hang /\ Quiet
  /\ UNCHANGED <<ht, use>>
  /\ ops' = ops + 1
  /\ UNCHANGED <<swaps, cursor>>
  /\ \E r \in {insert(graph_, data_, size_, capacity_, freed_, v, p, s)} :
     /\ hang' = r.hang
     /\ graph_' = r.graph
     /\ data_' = r.data
     /\ size_' = r.size
     /\ capacity_' = r.capacity
     /\ freed_' = r.freed
     /\ last' = Call("insert", v, p, s, r.id, Told)
     /\ run' = IF r.hang THEN run ELSE [run EXCEPT !.rets = Append(@, r.id)]

(* insert while fewer than MaxSize slots are in use *)
Insert(v, p, s) ==
  /\ freed_ # <<>> \/ size_ < MaxSize
  /\ InsertCall(v, p, s)

(* erase(id) that gives the last slot back when it erases it *)
Erase_shrinks(id) ==
  /\ ~hang /\ Quiet
  /\ UNCHANGED <<ht, use>>
  /\ ops' = IF id = root THEN ops ELSE ops + 1
  /\ UNCHANGED <<swaps, cursor>>
  /\ \E r \in {erase(graph_, data_, freed_, id)} :
     /\ hang' = r.hang
     /\ graph_' = r.graph
     /\ data_' = r.data
     /\ freed_' = r.freed
     /\ size_' = IF id = size_ - 1 THEN size_ - 1 ELSE size_
     /\ UNCHANGED capacity_
     /\ last' = Call("erase", id, 0, 0, 0, Told)
     /\ run' = NewRun(r.freed, size_)

Erase(id) ==
  /\ ~hang /\ Quiet
  /\ UNCHANGED <<ht, use>>
  /\ ops' = IF id = root THEN ops ELSE ops + 1
  /\ UNCHANGED <<swaps, cursor>>
  /\ \E r \in {erase(graph_, data_, freed_, id)} :
     /\ hang' = r.hang
     /\ graph_' = r.graph
     /\ data_' = r.data
     /\ freed_' = r.freed
     /\ UNCHANGED <<size_, capacity_>>
     /\ last' = Call("erase", id, 0, 0, 0, Told)
     /\ run' = NewRun(r.freed, size_)

(* swap(a, b) that exchanges the stored values as well *)
Swap_values(a, b) ==
  /\ ~hang /\ Quiet
  /\ UNCHANGED <<ht, use>>
  /\ ops' = ops + 1
  /\ swaps' = swaps + 1
  /\ graph_' = swap(graph_, a, b)
  /\ data_' = [data_ EXCEPT ![a] = data_[b], ![b] = data_[a]]
  /\ UNCHANGED <<size_, capacity_, freed_, hang, cursor>>
  /\ last' = Call("swap", a, b, 0, 0, Told)
  /\ run' = NewRun(freed_, size_)

Swap(a, b) ==
  /\ ~hang /\ Quiet
  /\ UNCHANGED <<ht, use>>
  /\ ops' = ops + 1
  /\ swaps' = swaps + 1
  /\ graph_' = swap(graph_, a, b)
  /\ UNCHANGED <<data_, size_, capacity_, freed_, hang, cursor>>
  /\ last' = Call("swap", a, b, 0, 0, Told)
  /\ run' = NewRun(freed_, size_)

(* clear(); a second clear() would deallocate the arrays again and is  *)
(* not followed                                                         *)
Clear ==
  /\ ~hang /\ Quiet
  /\ UNCHANGED <<ht, use>>
  /\ capacity_ # 0
  /\ ops' = ops + 1
  /\ UNCHANGED <<swaps, cursor, hang>>
  /\ \E r \in {clear(graph_, data_, freed_, size_)} :
     /\ graph_' = r.graph
     /\ data_' = r.data
     /\ freed_' = r.freed
     /\ size_' = r.size
     /\ capacity_' = r.capacity
     /\ last' = Call("clear", 0, 0, 0, 0, Told)
     /\ run' = NewRun(r.freed, r.size)

NextId ==
  /\ ~hang /\ Quiet
  /\ UNCHANGED <<ht, use>>
  /\ UNCHANGED <<graph_, data_, size_, capacity_, freed_, hang, ops, swaps, cursor>>
  /\ last' = Call("next_id", 0, 0, 0, next_id(freed_, size_), Told)
  /\ run' = NewRun(freed_, size_)

(* traverse<O>(visitor), line 456: the traverser and its cursor are built *)
Begin(i, order) ==
  /\ ~hang
  /\ cursor[i].status = "idle"
  /\ cursor' = [cursor EXCEPT ![i] = NewCursor(order)]
  /\ UNCHANGED <<graph_, data_, size_, capacity_, freed_, hang, last, run, ops, swaps>>
  /\ UNCHANGED <<ht, use>>

(* one turn of the traverser's loop on cursor i: the visitor answers     *)
(* stop; an undefined read ends the program (crash) or hands over x      *)
Advance(i, stop, crash, x) ==
  /\ ~hang
  /\ cursor[i].status = "running"
  /\ Len(cursor[i].rets) < MaxCalls
  /\ cursor' = [cursor EXCEPT ![i] =
                  traverser(cursor[i], data_,
                            advance(graph_, capacity_, cursor[i], Driven(cursor[i]), x),
                            stop, crash)]
  /\ UNCHANGED <<graph_, data_, size_, capacity_, freed_, hang, last, run, ops, swaps>>
  /\ UNCHANGED <<ht, use>>

(* insert increases a capacity that is not 0: _increase_capacity reads   *)
(* and releases the table it has released already                        *)
RereadsReleased == needs_room(ht) /\ ht.capacity_ # 0

(* whether the program is ended there, and what it reads if it goes on *)
Outcomes == IF RereadsReleased THEN BOOLEAN ELSE {FALSE}
Reads(h) == IF RereadsReleased THEN Released(ht.table_, h) ELSE {ht.table_}

(* hash_table::insert(x). When it increases a capacity that is not 0 it   *)
(* reads and releases memory it has released already: the program is     *)
(* ended (crash) or goes on with what it reads (old)                     *)
TableInsert(x, k, crash, old) ==
  /\ ~use.crashed
  /\ UNCHANGED <<graph_, data_, size_, capacity_, freed_, hang, last, run, ops, swaps, cursor>>
  /\ crash \in Outcomes
  /\ old \in Reads(Hashed(x, k))
  /\ ht' = IF crash THEN ht ELSE table_insert(ht, Hashed(x, k), x, old)
  /\ use' = [hash_ |-> Hashed(x, k),
             live |-> use.live \cup {x},
             last |-> TableCall("insert", x, 0),
             calls |-> use.calls + 1,
             crashed |-> crash]

(* hash_table::erase(x) *)
TableErase(x, k) ==
  /\ ~use.crashed
  /\ UNCHANGED <<graph_, data_, size_, capacity_, freed_, hang, last, run, ops, swaps, cursor>>
  /\ ht' = table_erase(ht, Hashed(x, k), x)
  /\ use' = [use EXCEPT !.hash_ = Hashed(x, k),
                        !.live = @ \ {x},
                        !.last = TableCall("erase", x, 0),
                        !.calls = @ + 1]

(* hash_table::contains(x) *)
TableContains(x, k) ==
  /\ ~use.crashed
  /\ UNCHANGED <<graph_, data_, size_, capacity_, freed_, hang, last, run, ops, swaps, cursor>>
  /\ UNCHANGED ht
  /\ use' = [use EXCEPT !.hash_ = Hashed(x, k),
                        !.last = TableCall("contains", x,
                                           IF contains(ht, Hashed(x, k), x) THEN 1 ELSE 0),
                        !.calls = @ + 1]

(* the calls a client makes: parents are valid nodes, the sibling argument *)
(* is 0 or a valid child of the parent, erase takes a valid node or the    *)
(* root, swap takes valid nodes                                            *)
DoInsert(n) ==
            /\ ops < n
            /\ \E v \in Values : \E p \in ValidIds :
                 \E s \in {0} \cup ChildrenOf(graph_, p) : Insert(v, p, s)
DoErase(n) ==
            /\ ops < n
            /\ \E id \in NonRoot \cup {root} : Erase(id)
DoClear(n) ==
            /\ ops < n
            /\ Clear
DoSwap(n) ==
            /\ ops < n
            /\ swaps < MaxSwaps
            /\ \E a \in ValidIds : \E b \in ValidIds : Swap(a, b)

Next == DoInsert(MaxOps) \/ DoErase(MaxOps) \/ NextId
Spec == Init /\ [][Next]_vars

\* the same calls, one call longer
NextDeep == DoInsert(MaxDeepOps) \/ DoErase(MaxDeepOps) \/ NextId
SpecDeep == Init /\ [][NextDeep]_vars

(* one traversal, in any of the five orders, of a tree as built *)
Orders == {"breadth_first", "pre_order", "in_order", "post_order", "unordered"}
DoTraverse == \E o \in Orders : Begin(1, o)
DoVisit    == \E stop \in BOOLEAN : \E crash \in BOOLEAN : \E x \in Ids :
                Advance(1, stop, crash, x)

NextCursor == DoInsert(MaxCursorOps) \/ DoErase(MaxCursorOps) \/ DoTraverse \/ DoVisit
SpecCursor == Init /\ [][NextCursor]_vars

(* two cursors, breadth-first or pre-order, driven in any interleaving *)
PairOrders == {"breadth_first", "pre_order"}
DoBeginPair   == \E i \in Cursors : \E o \in PairOrders : Begin(i, o)
DoAdvancePair == \E i \in Cursors : \E crash \in BOOLEAN : \E x \in Ids :
                   Advance(i, FALSE, crash, x)

NextPair == DoInsert(MaxPairOps) \/ DoErase(MaxPairOps) \/ DoBeginPair \/ DoAdvancePair
SpecPair == Init /\ [][NextPair]_vars

(* appends below the root and below node 1, and erase(1), until the arena *)
(* has grown once                                                         *)
GrowInsert == /\ ops < MaxGrowOps
              /\ freed_ # <<>> \/ size_ < MaxGrowSize
              /\ \E v \in Values : \E p \in ValidIds \cap {root, 1} : InsertCall(v, p, 0)
GrowErase  == /\ ops < MaxGrowOps
              /\ \E id \in NonRoot \cap {1} : Erase(id)

NextGrow == GrowInsert \/ GrowErase
SpecGrow == Init /\ [][NextGrow]_vars

(* insert and erase calls, then clear() *)
NextClear == DoInsert(MaxClearOps) \/ DoErase(MaxClearOps) \/ DoClear(MaxClearOps)
SpecClear == Init /\ [][NextClear]_vars

(* swap of two different nodes, neither of them the root *)
DoSwapNodes(n) ==
            /\ ops < n
            /\ swaps < MaxSwaps
            /\ \E a \in NonRoot : \E b \in NonRoot \ {a} : Swap(a, b)

NextSwapNodes == DoInsert(MaxSwapOps) \/ DoErase(MaxSwapOps) \/ DoSwapNodes(MaxSwapOps)
SpecSwapNodes == Init /\ [][NextSwapNodes]_vars

(* the hash table's client: any element, any hash value *)
DoTableInsert   == /\ use.calls < MaxTableOps
                   /\ \E x \in Usable : \E k \in HashOf(x) : \E crash \in Outcomes :
                        \E old \in Reads(Hashed(x, k)) :
                          TableInsert(x, k, crash, old)
DoTableErase    == /\ use.calls < MaxTableOps
                   /\ \E x \in Usable : \E k \in HashOf(x) : TableErase(x, k)
DoTableContains == /\ use.calls < MaxTableOps
                   /\ \E x \in Usable : \E k \in HashOf(x) : TableContains(x, k)

(* a client that fills the table: each insert brings a new element, and  *)
(* any element used before may be erased                                 *)
DoTableFill     == /\ use.calls < MaxFillOps
                   /\ \E x \in {e \in Usable : use.hash_[e] = Unhashed} :
                        \E k \in Hashes : \E crash \in Outcomes :
                          \E old \in Reads(Hashed(x, k)) :
                            TableInsert(x, k, crash, old)
DoTableDrop     == /\ use.calls < MaxFillOps
                   /\ \E x \in Usable : /\ use.hash_[x] # Unhashed
                                          /\ TableErase(x, use.hash_[x])

NextTableFill == DoTableFill \/ DoTableDrop
SpecTableFill == Init /\ [][NextTableFill]_vars

NextTable == DoTableInsert \/ DoTableErase \/ DoTableContains
SpecTable == Init /\ [][NextTable]_vars

NextSwap == DoInsert(MaxSwapOps) \/ DoErase(MaxSwapOps) \/ NextId \/ DoSwap(MaxSwapOps)
SpecSwap == Init /\ [][NextSwap]_vars

TypeOK ==
  /\ size_ \in 0..MaxGrowSize
  /\ capacity_ \in {0, FirstCapacity, 2 * FirstCapacity}
  /\ DOMAIN graph_ = 0..(capacity_ - 1)
  /\ ops \in 0..MaxGrowOps

(* ------------------------------------------------------------------ *)
(* Vocabulary of the properties                                        *)
(* ------------------------------------------------------------------ *)

(* the ids met by following parent from n (n excluded) *)
RECURSIVE AncestorWalk(_, _, _)
AncestorWalk(g, n, seen) ==
  IF parent(g, n) = n \/ parent(g, n) \in seen THEN seen
  ELSE AncestorWalk(g, parent(g, n), seen \cup {parent(g, n)})

Ancestors(g, n) == AncestorWalk(g, n, {})

(* the valid nodes below id *)
Descendants(g, id) ==
  {n \in DOMAIN g : n # id /\ is_valid(g, n) /\ id \in Ancestors(g, n)}

(* the ids a traversal that starts at the root can come upon *)
ReachableFromRoot(g) == LinkClosure(g, Links(g, root))


(* C1: an id handed out by insert stays valid over every later insert  *)
(* and over every erase of a node that is neither that id nor one of   *)
(* its ancestors.                                                      *)
C1_IdStaysValid ==
  [][\A n \in NonRoot :
       (/\ ~hang'
        /\ \/ last'.op = "insert"
           \/ /\ last'.op = "erase"
              /\ last'.a # n
              /\ last'.a \notin Ancestors(graph_, n))
       => is_valid(graph_', n)]_vars

(* C2: the root has depth 0 and every valid non-root node is one level *)
(* below its parent.                                                   *)
C2_DepthInvariant ==
  /\ depth(graph_, root) = 0
  /\ \A n \in NonRoot : depth(graph_, n) = depth(graph_, parent(graph_, n)) + 1

(* C3: the root record stays valid, parentless, siblingless, depth 0.  *)
C3_RootRecord ==
  /\ is_valid(graph_, root)
  /\ parent(graph_, root) = 0
  /\ prev_sibling(graph_, root) = 0
  /\ next_sibling(graph_, root) = 0
  /\ depth(graph_, root) = 0

(* C4: erase(id) of a valid non-root node leaves id and all of its     *)
(* descendants invalid and out of reach of the root's child and        *)
(* sibling links.                                                      *)
C4_EraseRemovesSubtree ==
  [][(last'.op = "erase" /\ last'.a # root /\ ~hang')
       => \A n \in {last'.a} \cup Descendants(graph_, last'.a) :
            /\ ~is_valid(graph_', n)
            /\ n \notin ReachableFromRoot(graph_')]_vars

(* the children of p as a traversal lists them: first_child(p), then     *)
(* next_sibling until 0 (or until a node comes up again)                 *)
RECURSIVE SiblingWalk(_, _, _)
SiblingWalk(g, c, acc) ==
  IF c = 0 \/ (\E i \in 1..Len(acc) : acc[i] = c) THEN acc
  ELSE SiblingWalk(g, next_sibling(g, c), Append(acc, c))

ChildList(g, p) == SiblingWalk(g, first_child(g, p), <<>>)

Range(q) == {q[i] : i \in 1..Len(q)}

(* q with id put right before its element s *)
InsertBefore(q, s, id) ==
  LET k == CHOOSE i \in 1..Len(q) : q[i] = s /\ \A j \in 1..(i - 1) : q[j] # s
  IN  SubSeq(q, 1, k - 1) \o <<id>> \o SubSeq(q, k, Len(q))

(* C5: insert(v, p, s) with s in p's child list puts the new node right *)
(* before s in that list and keeps the other children in their order.   *)
C5_InsertBeforeSibling ==
  [][(/\ last'.op = "insert" /\ ~hang'
      /\ last'.c # 0
      /\ last'.c \in Range(ChildList(graph_, last'.b)))
       => ChildList(graph_', last'.b)
            = InsertBefore(ChildList(graph_, last'.b), last'.c, last'.ret)]_vars

(* C6: insert(v, p, 0) puts the new node at the end of p's child list,  *)
(* and first_child(p) changes exactly when p had no child.              *)
C6_AppendIsLast ==
  [][(last'.op = "insert" /\ ~hang' /\ last'.c = 0)
       => LET p   == last'.b
              id  == last'.ret
              old == ChildList(graph_, p)
          IN  /\ ChildList(graph_', p) = Append(old, id)
              /\ next_sibling(graph_', id) = 0
              /\ old # <<>> => next_sibling(graph_', old[Len(old)]) = id
              /\ (first_child(graph_', p) # first_child(graph_, p))
                   <=> (first_child(graph_, p) = 0)]_vars

(* the walk from c over next_sibling ends at a 0 link without coming    *)
(* upon a node twice                                                    *)
RECURSIVE WalkEnds(_, _, _)
WalkEnds(g, c, seen) ==
  IF c \in seen THEN FALSE
  ELSE IF next_sibling(g, c) = 0 THEN TRUE
  ELSE WalkEnds(g, next_sibling(g, c), seen \cup {c})

(* C7: a valid node's first child has no previous sibling, and the      *)
(* sibling walk from it meets valid nodes only, none twice, and ends.   *)
C7_SiblingChain ==
  \A p \in ValidIds :
    first_child(graph_, p) # 0
      => /\ prev_sibling(graph_, first_child(graph_, p)) = 0
         /\ WalkEnds(graph_, first_child(graph_, p), {})
         /\ \A n \in Range(ChildList(graph_, p)) : is_valid(graph_, n)

(* C8: the free list holds invalid ids only, each once, and all of the  *)
(* invalid ids below size_; an id leaves it only through the insert     *)
(* that returns it.                                                     *)
C8_FreeListInv ==
  /\ \A i \in 1..Len(freed_) : ~is_valid(graph_, freed_[i])
  /\ \A i \in 1..Len(freed_) : \A j \in 1..Len(freed_) : freed_[i] = freed_[j] => i = j
  /\ \A n \in Ids : ~is_valid(graph_, n) => n \in Range(freed_)

C8_FreeList ==
  /\ [](~hang => C8_FreeListInv)
  /\ [][\A n \in Range(freed_) :
          n \notin Range(freed_') => (last'.op = "insert" /\ last'.ret = n)]_vars

(* C9: the id next_id() reports is the id the insert made right after   *)
(* it returns, and next_id() leaves the tree as it was.                 *)
C9_NextIdIsNextInsert ==
  /\ []((last.op = "insert" /\ ~hang /\ last.told # None) => last.ret = last.told[1])
  /\ [][last'.op = "next_id" => UNCHANGED tree]_vars

(* next_id() reported an id, insert was called right after it and came *)
(* back with an id taken from the free list                             *)
C9_Witness ==
  /\ last.op = "insert" /\ ~hang
  /\ last.told # None
  /\ run.freed # <<>>
  /\ last.ret = Head(run.freed)

(* C10: with f1..fk on the free list, the next k inserts return f1..fk  *)
(* in that order without changing size_, and the one after returns the  *)
(* new id size_; erasing, with an empty free list, a node A whose only  *)
(* descendant is C leaves A then C as the next two ids to be handed out.*)
C10_RunInv ==
  LET k == Len(run.freed) IN
  /\ \A i \in 1..Len(run.rets) :
       /\ i <= k => run.rets[i] = run.freed[i]
       /\ i = k + 1 => run.rets[i] = run.size
  /\ Len(run.rets) <= k => size_ = run.size
  /\ Len(run.rets) = k + 1 => size_ = run.size + 1

C10_FifoReuse ==
  /\ [](~hang => C10_RunInv)
  /\ [][(/\ last'.op = "erase" /\ last'.a # root /\ ~hang'
         /\ freed_ = <<>>
         /\ Cardinality(Descendants(graph_, last'.a)) = 1)
          => \E C \in Descendants(graph_, last'.a) :
               /\ Len(freed_') >= 2
               /\ SubSeq(freed_', 1, 2) = <<last'.a, C>>]_vars

(* C11: erase(0) leaves every node record, every valid flag, the values, *)
(* the free list, size_ and capacity_ as they were.                      *)
C11_EraseRootNoOp ==
  [][(last'.op = "erase" /\ last'.a = root)
       => /\ graph_' = graph_
          /\ \A n \in DOMAIN graph_ : is_valid(graph_', n) = is_valid(graph_, n)
          /\ data_' = data_
          /\ freed_' = freed_
          /\ size_' = size_
          /\ capacity_' = capacity_]_vars

(* erase(0) was called on a tree that has nodes and a free list *)
C11_Witness ==
  /\ last.op = "erase" /\ last.a = root
  /\ NonRoot # {}
  /\ freed_ # <<>>

(* ------------------------------------------------------------------ *)
(* Vocabulary of the traversal properties                              *)
(* ------------------------------------------------------------------ *)

(* the tree was built by insert calls only: every call made a new slot *)
InsertOnly == size_ = ops + 1

(* the ids a cursor emitted: what its calls returned, the 0s left out *)
NonZero(n) == n # 0
Emitted(c) == SelectSeq(c.rets, NonZero)

(* the place of n in q, 0 when n is not in q *)
Pos(q, n) == IF \E i \in 1..Len(q) : q[i] = n
               THEN CHOOSE i \in 1..Len(q) : q[i] = n /\ \A j \in 1..(i - 1) : q[j] # n
               ELSE 0

NoRepeat(q) == \A i \in 1..Len(q) : \A j \in 1..Len(q) : q[i] = q[j] => i = j

(* the cursor returned 0 having emitted every valid non-root node once *)
EmittedAll(c) == NoRepeat(Emitted(c)) /\ Range(Emitted(c)) = NonRoot

(* the cursor did nothing undefined, did not crash and did not hang *)
Sound(c) == ~c.ub /\ c.status \notin {"crashed", "hung"}

(* root has the children A, B and A has the child C, nothing else *)
IsACB(g, A, C, B) ==
  /\ ChildList(g, root) = <<A, B>>
  /\ ChildList(g, A) = <<C>>
  /\ ChildList(g, B) = <<>>
  /\ ChildList(g, C) = <<>>
  /\ NonRoot = {A, B, C}

(* C12: on a tree built by inserts only the pre-order cursor driven from *)
(* id 0 emits every valid non-root node once and then returns 0; a       *)
(* node's first child comes right after the node, its next sibling only  *)
(* after its whole subtree; root -> A, B and A -> C gives A, C, B.       *)
C12_PreOrder ==
  (cursor[1].order = "pre_order" /\ InsertOnly)
    => /\ Sound(cursor[1])
       /\ Len(Emitted(cursor[1])) <= Cardinality(NonRoot)
       /\ cursor[1].status = "done" => EmittedAll(cursor[1])
       /\ \A i \in 1..(Len(Emitted(cursor[1])) - 1) :
            first_child(graph_, Emitted(cursor[1])[i]) # 0
              => Emitted(cursor[1])[i + 1] = first_child(graph_, Emitted(cursor[1])[i])
       /\ \A i \in 1..Len(Emitted(cursor[1])) :
            Pos(Emitted(cursor[1]), next_sibling(graph_, Emitted(cursor[1])[i])) # 0
              => \A n \in Descendants(graph_, Emitted(cursor[1])[i]) :
                   /\ Pos(Emitted(cursor[1]), n) # 0
                   /\ Pos(Emitted(cursor[1]), n)
                        < Pos(Emitted(cursor[1]), next_sibling(graph_, Emitted(cursor[1])[i]))
       /\ \A A \in NonRoot : \A B \in NonRoot : \A C \in NonRoot :
            (IsACB(graph_, A, C, B) /\ cursor[1].status = "done")
              => Emitted(cursor[1]) = <<A, C, B>>

(* the valid non-root ids below the arena capacity *)
ValidBelowCapacity == {n \in DOMAIN graph_ : n # root /\ is_valid(graph_, n)}

Increasing(q) == \A i \in 1..Len(q) : \A j \in 1..Len(q) : i < j => q[i] < q[j]

(* C13: the unordered cursor yields the valid non-root ids below the     *)
(* capacity, each once, in increasing order, nothing else, and returns 0 *)
(* once its scan passes the last slot, without reading past it.          *)
C13_Unordered ==
  cursor[1].order = "unordered"
    => /\ Sound(cursor[1])
       /\ Increasing(Emitted(cursor[1]))
       /\ Range(Emitted(cursor[1])) \subseteq ValidBelowCapacity
       /\ Len(cursor[1].rets) <= Cardinality(ValidBelowCapacity) + 1
       /\ cursor[1].status = "done"
            => Range(Emitted(cursor[1])) = ValidBelowCapacity

(* C14: on a tree with a non-root node the breadth-first cursor driven   *)
(* from id 0 emits every valid non-root node once, the last one too,     *)
(* before its first call that returns 0.                                 *)
C14_BreadthFirstAll ==
  (cursor[1].order = "breadth_first" /\ NonRoot # {})
    => /\ Sound(cursor[1])
       /\ NoRepeat(Emitted(cursor[1]))
       /\ cursor[1].status = "done" => EmittedAll(cursor[1])

(* C15: when a node the breadth-first cursor emitted has a first child   *)
(* and a next sibling, the child is emitted before the sibling.          *)
C15_ChildBeforeSibling ==
  cursor[1].order = "breadth_first"
    => \A i \in 1..Len(Emitted(cursor[1])) :
         (/\ first_child(graph_, Emitted(cursor[1])[i]) # 0
          /\ next_sibling(graph_, Emitted(cursor[1])[i]) # 0
          /\ Pos(Emitted(cursor[1]), next_sibling(graph_, Emitted(cursor[1])[i])) # 0)
           => /\ Pos(Emitted(cursor[1]), first_child(graph_, Emitted(cursor[1])[i])) # 0
              /\ Pos(Emitted(cursor[1]), first_child(graph_, Emitted(cursor[1])[i]))
                   < Pos(Emitted(cursor[1]), next_sibling(graph_, Emitted(cursor[1])[i]))

(* the children listed before n in the child list of n's parent *)
EarlierSiblings(g, n) ==
  {ChildList(g, parent(g, n))[j] : j \in 1..(Pos(ChildList(g, parent(g, n)), n) - 1)}

(* everything in S was emitted before place i *)
EmittedBefore(q, S, i) == \A n \in S : Pos(q, n) # 0 /\ Pos(q, n) < i

(* C16: on a tree built by inserts only the post-order cursor driven     *)
(* from id 0 first emits the left-most descendant of the root, emits     *)
(* every valid non-root node once, each after all of its descendants and *)
(* after the subtrees of its earlier siblings, and then returns 0.       *)
C16_PostOrder ==
  (cursor[1].order = "post_order" /\ InsertOnly)
    => /\ Sound(cursor[1])
       /\ Len(Emitted(cursor[1])) <= Cardinality(NonRoot)
       /\ Emitted(cursor[1]) # <<>> => Emitted(cursor[1])[1] = left_most(graph_, root)
       /\ cursor[1].status = "done" => EmittedAll(cursor[1])
       /\ \A i \in 1..Len(Emitted(cursor[1])) :
            /\ EmittedBefore(Emitted(cursor[1]),
                             Descendants(graph_, Emitted(cursor[1])[i]), i)
            /\ \A e \in EarlierSiblings(graph_, Emitted(cursor[1])[i]) :
                 EmittedBefore(Emitted(cursor[1]), {e} \cup Descendants(graph_, e), i)

(* C17: on a tree built by inserts only the in-order cursor driven from  *)
(* id 0 emits every valid non-root node once, then returns 0 after       *)
(* finitely many calls, and never reads from an empty queue.             *)
C17_InOrder ==
  (cursor[1].order = "in_order" /\ InsertOnly)
    => /\ Sound(cursor[1])
       /\ Len(cursor[1].rets) <= Cardinality(NonRoot) + 1
       /\ NoRepeat(Emitted(cursor[1]))
       /\ cursor[1].status = "done" => EmittedAll(cursor[1])

(* C18: traverse calls the visitor once per id the cursor emits, in the  *)
(* cursor's order, with the value stored at the id and the id; after the *)
(* visitor returned true it is not called again, and if it never does    *)
(* the calls end exactly with the cursor's return of 0.                  *)
C18_VisitsInv ==
  /\ Len(cursor[1].visits) = Len(Emitted(cursor[1]))
  /\ \A i \in 1..Len(cursor[1].visits) :
       /\ cursor[1].visits[i].id = Emitted(cursor[1])[i]
       /\ cursor[1].visits[i].value = data_[cursor[1].visits[i].id]
       /\ cursor[1].visits[i].stop => i = Len(cursor[1].visits)
  /\ \A i \in 1..Len(cursor[1].rets) :
       cursor[1].rets[i] = 0 => i = Len(cursor[1].rets)
  /\ cursor[1].status = "stopped"
       <=> (cursor[1].visits # <<>> /\ cursor[1].visits[Len(cursor[1].visits)].stop)
  /\ cursor[1].status = "done"
       <=> (cursor[1].rets # <<>> /\ cursor[1].rets[Len(cursor[1].rets)] = 0)

C18_Traverse ==
  /\ []C18_VisitsInv
  /\ [][cursor[1].status \in {"stopped", "done"} => cursor'[1] = cursor[1]]_vars

(* a pre-order traversal the visitor stopped at its second node, with    *)
(* nodes left to emit                                                    *)
C18_Witness ==
  /\ cursor[1].order = "pre_order"
  /\ cursor[1].status = "stopped"
  /\ Len(cursor[1].visits) = 2
  /\ cursor[1].visit_queue_ # <<>>

(* q is the beginning of r *)
IsPrefix(q, r) == Len(q) <= Len(r) /\ SubSeq(r, 1, Len(q)) = q

(* C19: two cursors over the same unmodified tree are independent: in    *)
(* every interleaving each returns the ids a cursor of its order         *)
(* returns on that tree whatever the other does, and a step of one       *)
(* changes neither the tree nor the other cursor.                        *)
C19_SameSequence ==
  \A i \in Cursors : \A j \in Cursors :
    (cursor[i].order = cursor[j].order /\ Len(cursor[i].rets) <= Len(cursor[j].rets))
      => IsPrefix(cursor[i].rets, cursor[j].rets)

C19_Independent ==
  /\ []C19_SameSequence
  /\ [][\A i \in Cursors : \A j \in Cursors \ {i} :
          cursor'[i] # cursor[i] => (UNCHANGED tree /\ cursor'[j] = cursor[j])]_vars

(* C20: for distinct valid non-root nodes a and b, children of the same  *)
(* parent or not, if a was the first child of its parent before         *)
(* swap(a, b), b is that parent's first child after it.                  *)
C20_SwapFirstChild ==
  [][(/\ last'.op = "swap"
      /\ last'.a # last'.b
      /\ last'.a \in NonRoot /\ last'.b \in NonRoot
      /\ first_child(graph_, parent(graph_, last'.a)) = last'.a)
       => first_child(graph_', parent(graph_, last'.a)) = last'.b]_vars

(* n with a and b exchanged, and a list with a and b exchanged *)
Exchanged(a, b, n) == IF n = a THEN b ELSE IF n = b THEN a ELSE n
ExchangedList(a, b, q) == [i \in 1..Len(q) |-> Exchanged(a, b, q[i])]

(* C21: after swap(a, b) of distinct valid non-root nodes, a and b have  *)
(* exchanged positions: every child list is the old one with a and b     *)
(* exchanged, every node listed as a child of x has x in its parent      *)
(* field, and the other nodes keep their parent.                         *)
C21_SwapPositions ==
  [][(/\ last'.op = "swap"
      /\ last'.a # last'.b
      /\ last'.a \in NonRoot /\ last'.b \in NonRoot)
       => /\ \A p \in ValidIds :
               ChildList(graph_', Exchanged(last'.a, last'.b, p))
                 = ExchangedList(last'.a, last'.b, ChildList(graph_, p))
          /\ \A x \in ValidIds : \A n \in Range(ChildList(graph_', x)) :
               parent(graph_', n) = x
          /\ \A n \in NonRoot \ {last'.a, last'.b} :
               parent(graph_, n) \notin {last'.a, last'.b}
                 => parent(graph_', n) = parent(graph_, n)]_vars

(* C22: swap(a, b) of two valid nodes leaves the set of valid ids, the   *)
(* free list, the arena size and every stored value as they were.        *)
C22_SwapFrame ==
  [][last'.op = "swap"
       => /\ {n \in DOMAIN graph_' : is_valid(graph_', n)}
               = {n \in DOMAIN graph_ : is_valid(graph_, n)}
          /\ freed_' = freed_
          /\ size_' = size_
          /\ capacity_' = capacity_
          /\ data_' = data_]_vars

(* two nodes holding different values were swapped while the free list  *)
(* held ids                                                              *)
C22_Witness ==
  /\ last.op = "swap"
  /\ last.a # last.b
  /\ data_[last.a] # data_[last.b]
  /\ freed_ # <<>>

(* C23: after clear() no id is valid, the free list is empty, and size_  *)
(* and capacity_ are 0.                                                  *)
C23_ClearEmpties ==
  [][last'.op = "clear"
       => /\ \A n \in DOMAIN graph_' : ~is_valid(graph_', n)
          /\ freed_' = <<>>
          /\ size_' = 0
          /\ capacity_' = 0]_vars

(* the record of slot i with its three links blanked *)
Unlinked(g, i) == [g[i] EXCEPT !.child = 0, !.prev_sibling = 0, !.next_sibling = 0]

(* the slot insert links the new node to: the given sibling, or the      *)
(* parent's last child on an append                                      *)
Neighbour(g, p, s) == IF s = 0 THEN last_child(g, p) ELSE s

(* C24: the arena is built with capacity 10, slot 0 valid and every other *)
(* slot default and invalid; size_ <= capacity_ always; capacity_ changes *)
(* only in an insert that finds the free list empty and size_ equal to    *)
(* capacity_, and then doubles; the values below the old size are kept,   *)
(* the records below the old size are kept (insert afterwards writes the  *)
(* links of the parent and of the neighbouring sibling only), and the     *)
(* slots added beyond the new node are default and invalid.               *)
C24_GrowthInv ==
  /\ size_ <= capacity_
  /\ last.op = "new" => /\ capacity_ = 10
                        /\ is_valid(graph_, 0)
                        /\ \A i \in 1..(capacity_ - 1) :
                             graph_[i] = Node_ /\ ~is_valid(graph_, i)

C24_Growth ==
  /\ []C24_GrowthInv
  /\ [][capacity_' # capacity_
          => /\ last'.op = "insert"
             /\ freed_ = <<>>
             /\ size_ = capacity_
             /\ capacity_' = 2 * capacity_
             /\ DOMAIN graph_' = 0..(capacity_' - 1)
             /\ last'.ret = size_
             /\ \A i \in 0..(size_ - 1) :
                  /\ data_'[i] = data_[i]
                  /\ Unlinked(graph_', i) = Unlinked(graph_, i)
                  /\ i \notin {last'.b, Neighbour(graph_, last'.b, last'.c)}
                       => graph_'[i] = graph_[i]
             /\ \A i \in (size_ + 1)..(capacity_' - 1) :
                  /\ graph_'[i] = Node_
                  /\ ~is_valid(graph_', i)
                  /\ data_'[i] = DefaultValue]_vars

C24_Witness ==
  /\ last.op = "insert"
  /\ capacity_ = 2 * FirstCapacity
  /\ size_ = FirstCapacity + 1
  /\ \E i \in 1..(FirstCapacity - 1) : data_[i] # DefaultValue

(* C25: an insert that takes its id from the free list leaves a record    *)
(* with the given parent, depth(parent) + 1, the valid flag, no child,    *)
(* the links of its new position (after the parent's last child on an     *)
(* append, between the sibling and the sibling's predecessor otherwise)   *)
(* and the value passed to the call.                                      *)
C25_ReuseIsFresh ==
  [][(/\ last'.op = "insert" /\ ~hang' /\ freed_ # <<>>)
       => /\ last'.ret = Head(freed_)
          /\ parent(graph_', last'.ret) = last'.b
          /\ depth(graph_', last'.ret) = depth(graph_', last'.b) + 1
          /\ is_valid(graph_', last'.ret)
          /\ first_child(graph_', last'.ret) = 0
          /\ next_sibling(graph_', last'.ret) = last'.c
          /\ prev_sibling(graph_', last'.ret) =
               (IF last'.c = 0 THEN last_child(graph_, last'.b)
                               ELSE prev_sibling(graph_, last'.c))
          /\ data_'[last'.ret] = last'.a]_vars

(* C26: no insert and no erase lowers size_ or capacity_, and erase       *)
(* leaves both as they are.                                               *)
C26_NeverShrinks ==
  [][/\ size_' >= size_
     /\ capacity_' >= capacity_
     /\ last'.op = "erase" => size_' = size_ /\ capacity_' = capacity_]_vars

C26_Witness ==
  /\ last.op = "erase"
  /\ last.a = size_ - 1
  /\ ~is_valid(graph_, last.a)
  /\ freed_ # <<>>

(* C27: sibling lists are doubly linked: for valid n and m,               *)
(* next_sibling(n) = m # 0 exactly when prev_sibling(m) = n # 0, and then *)
(* both have the same parent; and a valid node other than the root has no *)
(* previous sibling exactly when it is its parent's first child.          *)
C27_DoublyLinked ==
  /\ \A n \in ValidIds : \A m \in ValidIds :
       /\ (next_sibling(graph_, n) = m /\ m # 0) <=> (prev_sibling(graph_, m) = n /\ n # 0)
       /\ (next_sibling(graph_, n) = m /\ m # 0) => parent(graph_, n) = parent(graph_, m)
  /\ \A n \in NonRoot :
       prev_sibling(graph_, n) = 0 <=> first_child(graph_, parent(graph_, n)) = n

(* q without its elements equal to id *)
RECURSIVE Without(_, _)
Without(q, id) ==
  IF q = <<>> THEN <<>>
  ELSE IF Head(q) = id THEN Without(Tail(q), id)
  ELSE <<Head(q)>> \o Without(Tail(q), id)

(* C28: erase(id) of a valid non-root node that is in its parent's child  *)
(* list makes the parent's first_child id's next sibling when id was the  *)
(* first child, and leaves it unchanged otherwise; in the latter case the *)
(* parent's child list is the old one without id.                         *)
C28_EraseFirstChild ==
  [][(/\ last'.op = "erase" /\ ~hang'
      /\ last'.a \in NonRoot
      /\ last'.a \in Range(ChildList(graph_, parent(graph_, last'.a))))
       => IF first_child(graph_, parent(graph_, last'.a)) = last'.a
            THEN first_child(graph_', parent(graph_, last'.a)) = next_sibling(graph_, last'.a)
            ELSE /\ first_child(graph_', parent(graph_, last'.a))
                      = first_child(graph_, parent(graph_, last'.a))
                 /\ ChildList(graph_', parent(graph_, last'.a))
                      = Without(ChildList(graph_, parent(graph_, last'.a)), last'.a)]_vars

(* the children of the nodes of q, list after list *)
RECURSIVE Level(_, _)
Level(g, q) ==
  IF q = <<>> THEN <<>> ELSE ChildList(g, Head(q)) \o Level(g, Tail(q))

(* q, then the nodes below q level by level, n levels deep *)
RECURSIVE BreadthFirstOrder(_, _, _)
BreadthFirstOrder(g, q, n) ==
  IF q = <<>> \/ n = 0 THEN <<>> ELSE q \o BreadthFirstOrder(g, Level(g, q), n - 1)

(* the elements of q that are in S, in the order of q *)
RECURSIVE Within(_, _)
Within(q, S) ==
  IF q = <<>> THEN <<>>
  ELSE IF Head(q) \in S THEN <<Head(q)>> \o Within(Tail(q), S)
  ELSE Within(Tail(q), S)

(* C29: on a tree built by inserts only, erase(id) of a valid non-root    *)
(* node appends to the free list, and among the appended ids those of     *)
(* the erased subtree come in this order: id, then its descendants        *)
(* breadth-first (the children of id in sibling order before any          *)
(* grandchild).                                                           *)
C29_FreeOrder ==
  [][(/\ last'.op = "erase" /\ ~hang' /\ last'.a \in NonRoot /\ InsertOnly)
       => /\ IsPrefix(freed_, freed_')
          /\ Within(SubSeq(freed_', Len(freed_) + 1, Len(freed_')),
                    {last'.a} \cup Descendants(graph_, last'.a))
               = BreadthFirstOrder(graph_, <<last'.a>>, size_)]_vars

(* C30: erase(id) of a valid non-root node invalidates and pushes on the  *)
(* free list exactly id and its descendants, and changes the valid flag   *)
(* and the value of no other node.                                        *)
C30_EraseFrame ==
  [][(/\ last'.op = "erase" /\ ~hang' /\ last'.a \in NonRoot)
       => /\ IsPrefix(freed_, freed_')
          /\ Range(SubSeq(freed_', Len(freed_) + 1, Len(freed_')))
               = {last'.a} \cup Descendants(graph_, last'.a)
          /\ \A n \in {last'.a} \cup Descendants(graph_, last'.a) : ~is_valid(graph_', n)
          /\ \A n \in Ids \ ({last'.a} \cup Descendants(graph_, last'.a)) :
               /\ is_valid(graph_', n) = is_valid(graph_, n)
               /\ data_'[n] = data_[n]]_vars

(* C31: insert never returns id 0 and never returns an id that is valid   *)
(* when it is called, and it leaves the record of the root as it was up   *)
(* to the links of its position (first_child, and next_sibling never).    *)
C31_InsertFreshId ==
  [][(last'.op = "insert" /\ ~hang')
       => /\ last'.ret # root
          /\ last'.ret \notin ValidIds
          /\ Unlinked(graph_', root) = Unlinked(graph_, root)
          /\ data_'[root] = data_[root]]_vars

(* C32: an id other than 0 is valid exactly when it can be reached from   *)
(* the root over first_child and next_sibling links.                      *)
C32_ValidIffReachable ==
  \A n \in Ids \ {root} :
     is_valid(graph_, n) <=> n \in ReachableFromRoot(graph_)

(* C33: the slots in use are the root, the valid nodes other than the     *)
(* root and the ids on the free list, each counted once: size_ = 1 +      *)
(* number of valid non-root ids + length of the free list; id 0 is not    *)
(* on the free list.                                                      *)
C33_SlotPartition ==
  /\ size_ = 1 + Cardinality(NonRoot) + Len(freed_)
  /\ root \notin Range(freed_)

(* C34: no call has run for ever, and on every valid id last_child and    *)
(* left_most end, erase ends (for an id other than the root), and no      *)
(* first_child / next_sibling path leads from the node back to itself.    *)
C34_Terminates ==
  /\ ~hang
  /\ \A n \in ValidIds :
       /\ ~last_child_hangs(graph_, n)
       /\ ~left_most_hangs(graph_, n)
       /\ n # root => ~remove(graph_, data_, freed_, n).hang
       /\ n \notin LinkClosure(graph_, Links(graph_, n))

(* the slots of the table that hold x *)
SlotsOf(t, x) == {i \in DOMAIN t.table_ : t.table_[i].valid /\ t.table_[i].value = x}

(* the elements the table holds *)
Stored(t) == {t.table_[i].value : i \in {j \in DOMAIN t.table_ : t.table_[j].valid}}

(* C35: contains(x) is true for every element inserted and not erased     *)
(* since.                                                                 *)
C35_ContainsInserted ==
  ~use.crashed => \A x \in use.live : contains(ht, use.hash_, x)

(* C36: size() is the number of elements inserted and not erased since,   *)
(* the table holds exactly those elements, each in one slot, and an       *)
(* insert of an element the table holds changes neither size() nor the    *)
(* elements held.                                                         *)
C36_SetInv ==
  ~use.crashed => /\ ht.size_ = Cardinality(use.live)
                  /\ Stored(ht) = use.live
                  /\ \A x \in use.live : Cardinality(SlotsOf(ht, x)) = 1

C36_SetSemantics ==
  /\ []C36_SetInv
  /\ [][(/\ use'.last.op = "insert" /\ use'.calls # use.calls /\ ~use'.crashed
          /\ use'.last.x \in Stored(ht))
           => ht'.size_ = ht.size_ /\ Stored(ht') = Stored(ht)]_vars

(* C37: erase(x) of an element the table holds leaves contains(x) false   *)
(* and size() one less, and every other element held is found by          *)
(* contains afterwards; erase(x) of an element the table does not hold    *)
(* changes nothing.                                                       *)
C37_EraseEffect ==
  [][(use'.last.op = "erase" /\ use'.calls # use.calls)
       => IF use'.last.x \in Stored(ht)
            THEN /\ ~contains(ht', use'.hash_, use'.last.x)
                 /\ ht'.size_ = ht.size_ - 1
                 /\ \A y \in Stored(ht) \ {use'.last.x} : contains(ht', use'.hash_, y)
            ELSE ht' = ht]_vars

====
